---- MODULE Spec2Model ----
(***************************************************************************)
(* Model of the pii-scan detection engine: the pattern catalog             *)
(* (patterns.ts), the tabular normalizers parseCSV / parseJSON, redact,    *)
(* maxRisk, scanColumns and scanContent (scanner.ts).                      *)
(*                                                                         *)
(* Strings are TLA+ strings; a character is a string of length 1.          *)
(***************************************************************************)
EXTENDS Integers, Sequences, FiniteSets, TLC

(***************************************************************************)
(* Characters and the character classes used by the regular expressions.   *)
(***************************************************************************)
CharsOf(str) == [i \in 1..Len(str) |-> SubSeq(str, i, i)]
SetOfChars(str) == {SubSeq(str, i, i) : i \in 1..Len(str)}

LowerAlpha == "abcdefghijklmnopqrstuvwxyz"
UpperAlpha == "ABCDEFGHIJKLMNOPQRSTUVWXYZ"
Digit == SetOfChars("0123456789")
Lower == SetOfChars(LowerAlpha)
Upper == SetOfChars(UpperAlpha)
Alpha == Lower \cup Upper
Alnum == Alpha \cup Digit
\* \w of ECMAScript: [A-Za-z0-9_]
WordChar == Alnum \cup {"_"}
\* \s of ECMAScript restricted to the ASCII white space and line terminators
Space == {" ", "\t", "\n", "\r", "\f"}
LineTerminator == {"\n", "\r"}
Punct == SetOfChars("@.,-_%+/()\"':;{}[]*#")
\* every character the model's inputs can contain
AnyChar == Alnum \cup Space \cup Punct
\* `.` of ECMAScript (without the s flag): any character but a line terminator
Dot == AnyChar \ LineTerminator

\* String.prototype.toUpperCase on one character (ASCII letters)
ToUpper(ch) ==
  IF ch \in Lower
    THEN LET k == CHOOSE k \in 1..26 : SubSeq(LowerAlpha, k, k) = ch
         IN SubSeq(UpperAlpha, k, k)
    ELSE ch
ToLower(ch) ==
  IF ch \in Upper
    THEN LET k == CHOOSE k \in 1..26 : SubSeq(UpperAlpha, k, k) = ch
         IN SubSeq(LowerAlpha, k, k)
    ELSE ch

(***************************************************************************)
(* Regular expressions.  A pattern is a sequence of items:                 *)
(*   Cls(S)          one character of the set S                            *)
(*   WB              the assertion \b                                      *)
(*   Alt(<<p1,..>>)  the alternation p1|p2|..  (first alternative first)   *)
(*   Rep(p, lo, hi)  the greedy quantifier p{lo,hi}; hi = Unbounded for    *)
(*                   p{lo,}                                                *)
(* The matcher is the backtracking matcher of ECMAScript.  Its choices at  *)
(* a start position are kept as the sequence of the positions matching     *)
(* can have reached, in the order in which backtracking tries them         *)
(* (alternatives left to right, more repetitions before fewer); the match  *)
(* the engine reports is the first that gets through the whole pattern.    *)
(***************************************************************************)
Unbounded == 0 - 1
NoMatch == 0

Cls(S) == [t |-> "cls", s |-> S]
WB == [t |-> "wb"]
Alt(ps) == [t |-> "alt", xs |-> ps]
Rep(p, lo, hi) == [t |-> "rep", x |-> p, lo |-> lo, hi |-> hi]
Opt(p) == Rep(p, 0, 1)
\* a literal string, case-sensitive
Lit(str) == [i \in 1..Len(str) |-> Cls({SubSeq(str, i, i)})]
\* a literal string under the i flag
LitI(str) == [i \in 1..Len(str) |->
                Cls({ToLower(SubSeq(str, i, i)), ToUpper(SubSeq(str, i, i))})]

IsWordAt(cs, i) == i >= 1 /\ i <= Len(cs) /\ cs[i] \in WordChar
\* \b holds between position i-1 and i (i = index of the next character)
IsWordBoundary(cs, i) == IsWordAt(cs, i - 1) # IsWordAt(cs, i)

\* the concatenation of seqs[lo], .., seqs[hi]
RECURSIVE Flatten(_, _, _)
Flatten(seqs, lo, hi) ==
  IF lo > hi THEN <<>>
  ELSE IF lo = hi THEN seqs[lo]
  ELSE Flatten(seqs, lo, (lo + hi) \div 2) \o Flatten(seqs, ((lo + hi) \div 2) + 1, hi)

\* the length of the longest run of characters of S from position i on,
\* up to hi characters
ClassRun(cs, S, hi, i) ==
  CHOOSE n \in 0..(Len(cs) + 1 - i) :
    \/ n = hi
    \/ n = Len(cs) + 1 - i
    \/ cs[i + n] \notin S

RECURSIVE ItemEnds(_, _, _)
RECURSIVE EndsFrom(_, _, _, _, _)
RECURSIVE MoreEnds(_, _, _, _)
\* where matching the items one after the other can end when it starts at i
SeqEnds(cs, items, i) == EndsFrom(cs, items, 1, Len(items), <<i>>)
\* the items of x, n times over
Times(x, n) == [k \in 1..(n * Len(x)) |-> x[((k - 1) % Len(x)) + 1]]
\* x{lo,hi} from i: the lo repetitions it needs, then the further ones
RepEnds(cs, x, lo, hi, i) ==
  MoreEnds(cs, x, IF hi = Unbounded THEN Unbounded ELSE hi - lo,
           SeqEnds(cs, Times(x, lo), i))

\* where a match of the item h that starts at i can end, in backtracking order
ItemEnds(cs, h, i) ==
  CASE h.t = "cls" -> IF i <= Len(cs) /\ cs[i] \in h.s THEN <<i + 1>> ELSE <<>>
    [] h.t = "wb" -> IF IsWordBoundary(cs, i) THEN <<i>> ELSE <<>>
    [] h.t = "alt" ->
         Flatten([k \in 1..Len(h.xs) |-> SeqEnds(cs, h.xs[k], i)], 1, Len(h.xs))
    [] h.t = "rep" ->
         IF Len(h.x) = 1 /\ h.x[1].t = "cls"
           \* a quantified character class: the longest run first
           THEN [k \in 1..(ClassRun(cs, h.x[1].s, h.hi, i) + 1 - h.lo) |->
                   i + ClassRun(cs, h.x[1].s, h.hi, i) + 1 - k]
           ELSE RepEnds(cs, h.x, h.lo, h.hi, i)

\* where matching items[lo], .., items[hi] one after the other can end when it
\* starts at one of the positions of from
EndsFrom(cs, items, lo, hi, from) ==
  IF Len(from) = 0 \/ lo > hi THEN from
  ELSE IF lo = hi
    THEN Flatten([k \in 1..Len(from) |-> ItemEnds(cs, items[lo], from[k])], 1, Len(from))
    ELSE EndsFrom(cs, items, ((lo + hi) \div 2) + 1, hi,
                  EndsFrom(cs, items, lo, (lo + hi) \div 2, from))

\* up to n further repetitions of x after each position of from: one more
\* repetition and what can follow it, then none; a repetition that matches
\* the empty string is dropped
MoreEnds(cs, x, n, from) ==
  Flatten([k \in 1..Len(from) |->
             (IF n = 0 THEN <<>>
              ELSE MoreEnds(cs, x, IF n = Unbounded THEN Unbounded ELSE n - 1,
                            SelectSeq(SeqEnds(cs, x, from[k]), LAMBDA e : e # from[k])))
               \o <<from[k]>>],
          1, Len(from))

\* the end of the match the engine reports at the start position i
FirstEnd(ends) == IF Len(ends) = 0 THEN NoMatch ELSE ends[1]
RegExpMatch(cs, pattern, i) == FirstEnd(SeqEnds(cs, pattern, i))

(***************************************************************************)
(* The pattern catalog (patterns.ts).                                      *)
(***************************************************************************)
RiskLevel == {"LOW", "MEDIUM", "HIGH"}

D(lo, hi) == Rep(<<Cls(Digit)>>, lo, hi)
\* [-\s]
DashSpace == Cls({"-"} \cup Space)
\* [-.\s]
DashDotSpace == Cls({"-", "."} \cup Space)
\* 25[0-5]|2[0-4]\d|[01]?\d\d?
Octet == Alt(<< Lit("25") \o <<Cls(SetOfChars("012345"))>>,
                Lit("2") \o <<Cls(SetOfChars("01234")), Cls(Digit)>>,
                <<Opt(<<Cls({"0", "1"})>>), Cls(Digit), Opt(<<Cls(Digit)>>)>> >>)

EmailPattern ==
  << WB, Rep(<<Cls(Alnum \cup SetOfChars("._%+-"))>>, 1, Unbounded), Cls({"@"}),
     Rep(<<Cls(Alnum \cup SetOfChars(".-"))>>, 1, Unbounded), Cls({"."}),
     Rep(<<Cls(Alpha)>>, 2, Unbounded), WB >>
SSNPattern ==
  << WB, D(3, 3), Opt(<<DashSpace>>), D(2, 2), Opt(<<DashSpace>>), D(4, 4), WB >>
CardPattern ==
  << WB,
     Alt(<< Lit("4") \o <<D(12, 12), Opt(<<D(3, 3)>>)>>,
            Lit("5") \o <<Cls(SetOfChars("12345")), D(14, 14)>>,
            Lit("3") \o <<Cls({"4", "7"}), D(13, 13)>>,
            Lit("6") \o <<Alt(<<Lit("011"), Lit("5") \o <<D(2, 2)>> >>), D(12, 12)>>,
            <<D(13, 19)>> >>),
     WB >>
PhonePattern ==
  << WB, Opt(Lit("+1") \o <<Opt(<<DashDotSpace>>)>>), Opt(Lit("(")), D(3, 3),
     Opt(Lit(")")), Opt(<<DashDotSpace>>), D(3, 3), Opt(<<DashDotSpace>>),
     D(4, 4), WB >>
IPv4Pattern ==
  << WB, Rep(<<Octet, Cls({"."})>>, 3, 3), Octet, WB >>
ZipPattern ==
  << WB, D(5, 5), Opt(Lit("-") \o <<D(4, 4)>>), WB >>
DobPattern ==
  << WB,
     Alt(<< <<Opt(Lit("0")), Cls(SetOfChars("123456789"))>>,
            Lit("1") \o <<Cls(SetOfChars("012"))>> >>),
     Cls({"-", "/"}),
     Alt(<< <<Opt(Lit("0")), Cls(SetOfChars("123456789"))>>,
            <<Cls({"1", "2"}), Cls(Digit)>>,
            Lit("3") \o <<Cls({"0", "1"})>> >>),
     Cls({"-", "/"}),
     Alt(<<Lit("19"), Lit("20")>>), D(2, 2), WB >>
\* flags gi: the literals match in either case
StreetPattern ==
  << WB, D(1, 5), Rep(<<Cls(Space)>>, 1, Unbounded),
     Rep(<<Cls(Alnum \cup Space)>>, 3, 30),
     Alt(<<LitI("St"), LitI("Ave"), LitI("Blvd"), LitI("Dr"), LitI("Rd"),
           LitI("Ln"), LitI("Way"), LitI("Ct"), LitI("Pl"), LitI("Ter")>>),
     WB, Opt(Lit(".")) >>
PassportPattern ==
  << WB, Rep(<<Cls(Upper)>>, 1, 2), D(6, 9), WB >>
RoutingPattern ==
  << WB, D(9, 9), WB >>

PII_PATTERNS ==
  << [name |-> "Email Address", risk |-> "HIGH", pattern |-> EmailPattern],
     [name |-> "SSN (US Social Security Number)", risk |-> "HIGH", pattern |-> SSNPattern],
     [name |-> "Credit / Debit Card Number", risk |-> "HIGH", pattern |-> CardPattern],
     [name |-> "US Phone Number", risk |-> "HIGH", pattern |-> PhonePattern],
     [name |-> "IPv4 Address", risk |-> "MEDIUM", pattern |-> IPv4Pattern],
     [name |-> "US ZIP Code", risk |-> "LOW", pattern |-> ZipPattern],
     [name |-> "Date of Birth Pattern", risk |-> "MEDIUM", pattern |-> DobPattern],
     [name |-> "Street Address", risk |-> "MEDIUM", pattern |-> StreetPattern],
     [name |-> "Passport / ID Number", risk |-> "HIGH", pattern |-> PassportPattern],
     [name |-> "Bank Routing Number (ABA)", risk |-> "HIGH", pattern |-> RoutingPattern] >>

\* .? and . inside a column-name rule
OptDot == Opt(<<Cls(Dot)>>)
OneDot == <<Cls(Dot)>>
\* /\b(w1|w2|..)\b/i
NameRule(alts) == << WB, Alt(alts), WB >>

SUSPICIOUS_COLUMN_NAMES ==
  << [pattern |-> NameRule(<<LitI("email"), LitI("e_mail"), LitI("email_addr")>>),
      risk |-> "HIGH", label |-> "Email column"],
     [pattern |-> NameRule(<<LitI("ssn"), LitI("social_security"),
                             LitI("social") \o OneDot \o LitI("security")>>),
      risk |-> "HIGH", label |-> "SSN column"],
     [pattern |-> NameRule(<<LitI("phone"), LitI("mobile"), LitI("cell"),
                             LitI("telephone"), LitI("tel")>>),
      risk |-> "HIGH", label |-> "Phone column"],
     [pattern |-> NameRule(<<LitI("dob"), LitI("date_of_birth"), LitI("birth_date"),
                             LitI("birthdate")>>),
      risk |-> "HIGH", label |-> "Date of birth column"],
     [pattern |-> NameRule(<<LitI("first") \o <<OptDot>> \o LitI("name"),
                             LitI("last") \o <<OptDot>> \o LitI("name"),
                             LitI("full") \o <<OptDot>> \o LitI("name"),
                             LitI("fname"), LitI("lname")>>),
      risk |-> "HIGH", label |-> "Name column"],
     [pattern |-> NameRule(<<LitI("address"), LitI("street"), LitI("city"),
                             LitI("zip"), LitI("postal")>>),
      risk |-> "MEDIUM", label |-> "Address column"],
     [pattern |-> NameRule(<<LitI("ip") \o <<OptDot>> \o LitI("addr"),
                             LitI("ip_address"), LitI("ipv4"), LitI("ipv6")>>),
      risk |-> "MEDIUM", label |-> "IP address column"],
     [pattern |-> NameRule(<<LitI("passport"), LitI("license"),
                             LitI("driver") \o <<OptDot>> \o LitI("lic"),
                             LitI("dl_number")>>),
      risk |-> "HIGH", label |-> "ID document column"],
     [pattern |-> NameRule(<<LitI("credit") \o <<OptDot>> \o LitI("card"),
                             LitI("card") \o <<OptDot>> \o LitI("num"),
                             LitI("cc_num"), LitI("cvv"), LitI("expiry")>>),
      risk |-> "HIGH", label |-> "Payment card column"],
     [pattern |-> NameRule(<<LitI("account") \o <<OptDot>> \o LitI("num"),
                             LitI("bank") \o <<OptDot>> \o LitI("account"),
                             LitI("routing")>>),
      risk |-> "HIGH", label |-> "Bank account column"],
     [pattern |-> NameRule(<<LitI("gender"), LitI("sex"), LitI("race"),
                             LitI("ethnicity"), LitI("religion"), LitI("nationality")>>),
      risk |-> "MEDIUM", label |-> "Sensitive demographic column"],
     [pattern |-> NameRule(<<LitI("salary"), LitI("income"), LitI("wage"),
                             LitI("compensation")>>),
      risk |-> "MEDIUM", label |-> "Financial column"],
     [pattern |-> NameRule(<<LitI("diagnosis"), LitI("condition"), LitI("medication"),
                             LitI("health"), LitI("medical"), LitI("patient")>>),
      risk |-> "HIGH", label |-> "Health data column"] >>

(***************************************************************************)
(* RegExp.prototype.test on a regular expression without the g flag: the   *)
(* search starts at index 0 whatever lastIndex is, and lastIndex is left   *)
(* alone.                                                                  *)
(***************************************************************************)
RegExpTest(pattern, str) ==
  LET cs == CharsOf(str)
  IN \E p \in 1..(Len(cs) + 1) : RegExpMatch(cs, pattern, p) # NoMatch

(***************************************************************************)
(* String.prototype.matchAll with a g-flagged regular expression: the      *)
(* matches are produced by a CLONE of the expression whose lastIndex       *)
(* starts at the original's lastIndex; each exec finds the leftmost start  *)
(* at or after lastIndex and moves lastIndex to the end of the match (one  *)
(* further after an empty match).  startIndex is 0-based like lastIndex;   *)
(* the result is the sequence of matched substrings, left to right.        *)
(***************************************************************************)
\* the matches an exec can find: where one starts and where it ends
Execs(cs, pattern, startIndex) ==
  {m \in {[at |-> p, end |-> RegExpMatch(cs, pattern, p)] :
             p \in (startIndex + 1)..(Len(cs) + 1)} : m.end # NoMatch}
\* lastIndex after the exec that found m
IndexAfter(m) == IF m.end = m.at THEN m.at + 1 ELSE m.end
\* no match that starts before m reaches into it: every run of execs finds m
IsClear(execs, m) == \A o \in execs : o.at < m.at => IndexAfter(o) <= m.at
FirstFrom(execs, index) ==
  CHOOSE m \in execs : m.at >= index /\ \A o \in execs : o.at >= index => m.at <= o.at
\* the execs that follow the one that found m find the match t
RECURSIVE FindsLater(_, _, _)
FindsLater(execs, m, t) ==
  \/ m.at = t.at
  \/ /\ IndexAfter(m) <= t.at
     /\ FindsLater(execs, FirstFrom(execs, IndexAfter(m)), t)
LastClearBefore(clear, t) ==
  CHOOSE h \in clear : h.at <= t.at /\ \A o \in clear : o.at <= t.at => o.at <= h.at
\* the matches the successive execs find
Found(execs, clear) ==
  {t \in execs : t \in clear \/ FindsLater(execs, LastClearBefore(clear, t), t)}
InOrder(str, found) ==
  [i \in 1..Cardinality(found) |->
     LET m == CHOOSE m \in found : Cardinality({o \in found : o.at < m.at}) = i - 1
     IN SubSeq(str, m.at, m.end - 1)]
FoundAmong(str, execs) ==
  InOrder(str, Found(execs, {m \in execs : IsClear(execs, m)}))

MatchAll(str, pattern, startIndex) ==
  FoundAmong(str, Execs(CharsOf(str), pattern, startIndex))

(***************************************************************************)
(* String helpers of the JavaScript runtime.                               *)
(***************************************************************************)
Min(a, b) == IF a <= b THEN a ELSE b
Max(a, b) == IF a >= b THEN a ELSE b

\* "*".repeat(n)
RECURSIVE Repeat(_, _)
Repeat(ch, n) == IF n <= 0 THEN "" ELSE ch \o Repeat(ch, n - 1)

\* String(n) for a natural number
DigitChars == "0123456789"
RECURSIVE NatToString(_)
NatToString(n) ==
  IF n < 10 THEN SubSeq(DigitChars, n + 1, n + 1)
  ELSE NatToString(n \div 10) \o SubSeq(DigitChars, (n % 10) + 1, (n % 10) + 1)

\* String.prototype.trim
Trim(str) ==
  LET keep == {i \in 1..Len(str) : SubSeq(str, i, i) \notin Space}
  IN IF keep = {} THEN ""
     ELSE LET a == CHOOSE i \in keep : \A j \in keep : i <= j
              b == CHOOSE i \in keep : \A j \in keep : i >= j
          IN SubSeq(str, a, b)

\* Array.prototype.join("\n")
RECURSIVE JoinLines(_)
JoinLines(values) ==
  IF Len(values) = 0 THEN ""
  ELSE IF Len(values) = 1 THEN values[1]
  ELSE LET mid == Len(values) \div 2
       IN JoinLines(SubSeq(values, 1, mid)) \o "\n"
            \o JoinLines(SubSeq(values, mid + 1, Len(values)))

\* String.prototype.split on a separator: sepLen[i] is the length of the
\* separator that starts at index i, or 0.  A separator is one or two
\* characters long; the second character of a separator starts no other.
SeparatorStarts(str, sepLen) ==
  {i \in 1..Len(str) : sepLen[i] > 0 /\ (i = 1 \/ sepLen[i - 1] < 2)}
\* the k-th element of a set of numbers, in ascending order
NthOf(set, k) == CHOOSE s \in set : Cardinality({t \in set : t < s}) = k - 1
PiecesBetween(str, sepLen, starts) ==
  [k \in 1..(Cardinality(starts) + 1) |->
     SubSeq(str,
            IF k = 1 THEN 1
            ELSE NthOf(starts, k - 1) + sepLen[NthOf(starts, k - 1)],
            IF k = Cardinality(starts) + 1 THEN Len(str)
            ELSE NthOf(starts, k) - 1)]
SplitBy(str, sepLen) == PiecesBetween(str, sepLen, SeparatorStarts(str, sepLen))

\* the separator /\r?\n/
CrLfSep(str) ==
  [i \in 1..Len(str) |->
     IF SubSeq(str, i, i) = "\n" THEN 1
     ELSE IF SubSeq(str, i, i) = "\r" /\ i < Len(str) /\ SubSeq(str, i + 1, i + 1) = "\n"
       THEN 2 ELSE 0]
\* the separator "\n"
LfSep(str) == [i \in 1..Len(str) |-> IF SubSeq(str, i, i) = "\n" THEN 1 ELSE 0]

\* String.prototype.endsWith
EndsWith(str, suffix) ==
  Len(str) >= Len(suffix)
    /\ SubSeq(str, Len(str) - Len(suffix) + 1, Len(str)) = suffix

(***************************************************************************)
(* redact and maxRisk (scanner.ts).                                        *)
(***************************************************************************)
MaskCap == 8
\* redact without the cap on the mask
redact_uncapped(value) ==
  IF Len(value) <= 4 THEN "****"
  ELSE SubSeq(value, 1, 2) \o Repeat("*", Len(value) - 4)
         \o SubSeq(value, Len(value) - 1, Len(value))
redact(value) ==
  IF Len(value) <= 4 THEN "****"
  ELSE SubSeq(value, 1, 2) \o Repeat("*", Min(Len(value) - 4, MaskCap))
         \o SubSeq(value, Len(value) - 1, Len(value))

\* order.indexOf(r) for order = ["LOW", "MEDIUM", "HIGH"]
OrderIndexOf(r) == CASE r = "LOW" -> 0 [] r = "MEDIUM" -> 1 [] r = "HIGH" -> 2
\* maxRisk with the comparison turned round
maxRisk_flipped(a, b) == IF OrderIndexOf(a) <= OrderIndexOf(b) THEN a ELSE b
maxRisk(a, b) == IF OrderIndexOf(a) >= OrderIndexOf(b) THEN a ELSE b

(***************************************************************************)
(* A Record<string, string[]> object.  own is the sequence of its own      *)
(* properties [key, values] in the order Object.entries enumerates them:   *)
(* array-index keys first, ascending, then the other keys in creation      *)
(* order.  __proto__ is not an own property: assigning it replaces the     *)
(* prototype (protoArray is the array installed, NoProtoArray if none).    *)
(***************************************************************************)
MaxArrayIndex == "4294967294"
DigitVal(ch) == (CHOOSE k \in 1..10 : SubSeq(DigitChars, k, k) = ch) - 1
\* lexicographic a < b for digit strings of equal length
RECURSIVE DigitsLess(_, _)
DigitsLess(a, b) ==
  IF Len(a) = 0 THEN FALSE
  ELSE IF DigitVal(SubSeq(a, 1, 1)) # DigitVal(SubSeq(b, 1, 1))
    THEN DigitVal(SubSeq(a, 1, 1)) < DigitVal(SubSeq(b, 1, 1))
    ELSE DigitsLess(SubSeq(a, 2, Len(a)), SubSeq(b, 2, Len(b)))
\* numeric a < b for canonical numeric strings
IndexLess(a, b) == Len(a) < Len(b) \/ (Len(a) = Len(b) /\ DigitsLess(a, b))
IsArrayIndex(key) ==
  /\ Len(key) >= 1
  /\ \A i \in 1..Len(key) : SubSeq(key, i, i) \in Digit
  /\ (Len(key) = 1 \/ SubSeq(key, 1, 1) # "0")
  /\ (key = MaxArrayIndex \/ IndexLess(key, MaxArrayIndex))

NoProtoArray == [installed |-> FALSE, values |-> <<>>]
EmptyObject == [own |-> <<>>, protoArray |-> NoProtoArray]
\* names Object.prototype defines: reading them on an object that has no
\* such own property yields a (truthy) inherited value
ObjectPrototypeKeys ==
  {"constructor", "toString", "valueOf", "hasOwnProperty", "isPrototypeOf",
   "propertyIsEnumerable", "toLocaleString", "__proto__"}

HasOwn(obj, key) == \E i \in 1..Len(obj.own) : obj.own[i].key = key
OwnIndex(obj, key) == CHOOSE i \in 1..Len(obj.own) : obj.own[i].key = key

\* position at which a new own property key is enumerated
InsertPos(own, key) ==
  IF IsArrayIndex(key)
    THEN 1 + Cardinality({i \in 1..Len(own) :
                            IsArrayIndex(own[i].key) /\ IndexLess(own[i].key, key)})
    ELSE Len(own) + 1

\* obj[key] = values
PropertySet(obj, key, values) ==
  IF key = "__proto__"
    THEN [obj EXCEPT !.protoArray = [installed |-> TRUE, values |-> values]]
  ELSE IF HasOwn(obj, key)
    THEN [obj EXCEPT !.own[OwnIndex(obj, key)].values = values]
    ELSE LET pos == InsertPos(obj.own, key)
         IN [obj EXCEPT !.own = SubSeq(obj.own, 1, pos - 1)
                                  \o <<[key |-> key, values |-> values]>>
                                  \o SubSeq(obj.own, pos, Len(obj.own))]

\* obj[key].push(v), for a key that holds an array
PropertyPush(obj, key, v) ==
  IF key = "__proto__"
    THEN [obj EXCEPT !.protoArray.values = Append(@, v)]
    ELSE [obj EXCEPT !.own[OwnIndex(obj, key)].values = Append(@, v)]

(***************************************************************************)
(* parseCSV (scanner.ts).                                                  *)
(***************************************************************************)
\* one step of the loop of splitLine on the character ch
splitLineStep(st, ch) ==
  IF ch = "\""
    THEN [st EXCEPT !.inQuote = ~st.inQuote]
  ELSE IF ch = "," /\ ~st.inQuote
    THEN [st EXCEPT !.result = Append(st.result, Trim(st.current)), !.current = ""]
    ELSE [st EXCEPT !.current = st.current \o ch]

\* the loop of splitLine over the characters lo..hi of the line, from the
\* state st: the first half of the range, then the second half from the state
\* the first half ended in (splitRest reads that state before it goes on)
RECURSIVE splitRange(_, _, _, _)
RECURSIVE splitRest(_, _, _, _)
splitRange(line, st, lo, hi) ==
  IF lo > hi THEN st
  ELSE IF lo = hi THEN splitLineStep(st, SubSeq(line, lo, lo))
  ELSE splitRest(line, splitRange(line, st, lo, (lo + hi) \div 2),
                 ((lo + hi) \div 2) + 1, hi)
splitRest(line, half, lo, hi) ==
  IF half.inQuote \in BOOLEAN THEN splitRange(line, half, lo, hi) ELSE half

\* result.push(current.trim()) after the loop
splitLineEnd(final) == Append(final.result, Trim(final.current))

splitLine(line) ==
  splitLineEnd(splitRange(line, [result |-> <<>>, current |-> "", inQuote |-> FALSE],
                          1, Len(line)))

IsNonBlank(l) == Trim(l) # ""
\* content.split(/\r?\n/).filter((l) => l.trim())
csvLines(content) == SelectSeq(SplitBy(content, CrLfSep(content)), IsNonBlank)

\* headers.forEach((h, idx) => { if (values[idx] !== undefined) columns[h].push(values[idx]) })
RECURSIVE pushRow(_, _, _, _)
pushRow(columns, headers, values, idx) ==
  IF idx > Len(headers) THEN columns
  ELSE pushRow(IF idx <= Len(values)
                 THEN PropertyPush(columns, headers[idx], values[idx])
                 ELSE columns,
               headers, values, idx + 1)

parseCSV(content) ==
  LET lines == csvLines(content)
      headers == splitLine(lines[1])
      RECURSIVE InitColumns(_, _)
      InitColumns(columns, k) ==
        IF k > Len(headers) THEN columns
        ELSE InitColumns(PropertySet(columns, headers[k], <<>>), k + 1)
      RECURSIVE Rows(_, _)
      Rows(columns, i) ==
        IF i > Len(lines) THEN columns
        ELSE Rows(pushRow(columns, headers, splitLine(lines[i]), 1), i + 1)
  IN IF Len(lines) = 0 THEN EmptyObject
     ELSE Rows(InitColumns(EmptyObject, 1), 2)

(***************************************************************************)
(* scanColumns (scanner.ts).  piiLastIndex[k] is the lastIndex property of *)
(* PII_PATTERNS[k].pattern, the only mutable state of the catalog that     *)
(* matching reads (the column-name expressions carry no g flag).           *)
(***************************************************************************)
SampleCap == 200
MaxSamples == 3
ZeroLastIndex == [k \in 1..Len(PII_PATTERNS) |-> 0]

\* lastIndex as pattern.test(sample) would leave it: the end of the first
\* match at or after lastIndex, 0 if there is none
LastIndexAfterMatchAll_test(str, pattern, lastIndex) ==
  LET cs == CharsOf(str)
      hits == {p \in (lastIndex + 1)..(Len(cs) + 1) : RegExpMatch(cs, pattern, p) # NoMatch}
  IN IF hits = {} THEN 0
     ELSE RegExpMatch(cs, pattern, CHOOSE p \in hits : \A q \in hits : p <= q) - 1
\* lastIndex of the catalog's expression after sample.matchAll(pattern):
\* matchAll runs on a clone, the expression itself is not written
LastIndexAfterMatchAll(str, pattern, lastIndex) == lastIndex

\* the for loop without its break: a finding for every rule that matches
columnNameFindings_noBreak(column, values) ==
  LET RECURSIVE From(_)
      From(k) ==
        IF k > Len(SUSPICIOUS_COLUMN_NAMES) THEN <<>>
        ELSE (IF RegExpTest(SUSPICIOUS_COLUMN_NAMES[k].pattern, column)
                THEN << [column |-> column,
                         patternName |-> SUSPICIOUS_COLUMN_NAMES[k].label,
                         risk |-> SUSPICIOUS_COLUMN_NAMES[k].risk,
                         matchCount |-> Len(values),
                         sampleValues |-> <<>>,
                         source |-> "column_name"] >>
                ELSE <<>>) \o From(k + 1)
  IN From(1)
\* 1. Column name heuristic: the for loop with its break
columnNameFindings(column, values) ==
  LET hits == {k \in 1..Len(SUSPICIOUS_COLUMN_NAMES) :
                 RegExpTest(SUSPICIOUS_COLUMN_NAMES[k].pattern, column)}
  IN IF hits = {} THEN <<>>
     ELSE LET k == CHOOSE k \in hits : \A j \in hits : k <= j
          IN << [column |-> column,
                 patternName |-> SUSPICIOUS_COLUMN_NAMES[k].label,
                 risk |-> SUSPICIOUS_COLUMN_NAMES[k].risk,
                 matchCount |-> Len(values),
                 sampleValues |-> <<>>,
                 source |-> "column_name"] >>

\* the join of all the values, without the slice
sampleOf_whole(values) == JoinLines(values)
\* values.slice(0, 200).join("\n")
sampleOf(values) == JoinLines(SubSeq(values, 1, Min(Len(values), SampleCap)))

\* matches.slice(0, 3).map((m) => redact(m[0]))
sampleValuesOf(matches) ==
  [i \in 1..Min(Len(matches), MaxSamples) |-> redact(matches[i])]

\* findings.push({ column, patternName, risk, matchCount, sampleValues, source })
patternFinding(column, piiPattern, matches) ==
  [column |-> column,
   patternName |-> piiPattern.name,
   risk |-> piiPattern.risk,
   matchCount |-> Len(matches),
   sampleValues |-> sampleValuesOf(matches),
   source |-> "content"]

\* [...sample.matchAll(piiPattern.pattern)] for each pattern of the catalog
sampleMatches(sample, li) ==
  [k \in 1..Len(PII_PATTERNS) |->
     [piiPattern |-> PII_PATTERNS[k],
      matches |-> MatchAll(sample, PII_PATTERNS[k].pattern, li[k])]]
\* if (matches.length > 0)
HasMatches(tried) == Len(tried.matches) > 0
\* the findings pushed, in catalog order
foundFindings(column, found) ==
  [j \in 1..Len(found) |-> patternFinding(column, found[j].piiPattern, found[j].matches)]

\* 2. Content scanning of the sample of one column: the for loop over
\* PII_PATTERNS; the findings in catalog order and the catalog state after
sampleFindings(column, sample, li) ==
  [findings |-> foundFindings(column, SelectSeq(sampleMatches(sample, li), HasMatches)),
   piiLastIndex |->
     [k \in 1..Len(PII_PATTERNS) |->
        LastIndexAfterMatchAll(sample, PII_PATTERNS[k].pattern, li[k])]]

contentFindings(column, values, piiLastIndex) ==
  sampleFindings(column, sampleOf(values), piiLastIndex)

\* findings.reduce((acc, f) => maxRisk(acc, f.risk), "LOW")
RECURSIVE reduceRisk(_, _, _)
reduceRisk(findings, i, acc) ==
  IF i > Len(findings) THEN acc
  ELSE reduceRisk(findings, i + 1, maxRisk(acc, findings[i].risk))

overallRiskOf(findings) ==
  IF Len(findings) = 0 THEN "LOW" ELSE reduceRisk(findings, 1, "LOW")

highCountOf(findings) == Len(SelectSeq(findings, LAMBDA f : f.risk = "HIGH"))

summaryOf(findings) ==
  IF Len(findings) = 0
    THEN "No PII patterns detected. Review manually before use."
    ELSE NatToString(Len(findings)) \o " potential PII finding(s) across "
           \o NatToString(Cardinality({findings[i].column : i \in 1..Len(findings)}))
           \o " column(s). "
           \o (IF highCountOf(findings) > 0
                 THEN NatToString(highCountOf(findings)) \o " HIGH risk. " ELSE "")
           \o "Do not use this dataset in lower environments without synthetic replacement."

\* totalRows = Math.max(totalRows, values.length) over the columns
RECURSIVE totalRowsOf(_, _, _)
totalRowsOf(columns, i, acc) ==
  IF i > Len(columns) THEN acc
  ELSE totalRowsOf(columns, i + 1, Max(acc, Len(columns[i].values)))

\* the findings of the column after those of the columns before it
columnStep(column, values, findings, content) ==
  [findings |-> findings \o columnNameFindings(column, values) \o content.findings,
   piiLastIndex |-> content.piiLastIndex]

\* the loop over Object.entries(columns), from column i on
RECURSIVE columnsLoop(_, _, _)
columnsLoop(columns, i, acc) ==
  IF i > Len(columns) THEN acc
  ELSE columnsLoop(columns, i + 1,
                   columnStep(columns[i].key, columns[i].values, acc.findings,
                              contentFindings(columns[i].key, columns[i].values,
                                              acc.piiLastIndex)))

\* the ScanResult returned, and the catalog state the call leaves
scanOutcome(columns, filePath, scanned) ==
  [result |-> [file |-> filePath,
               rowsScanned |-> totalRowsOf(columns, 1, 0),
               columnsScanned |-> Len(columns),
               findings |-> scanned.findings,
               overallRisk |-> overallRiskOf(scanned.findings),
               summary |-> summaryOf(scanned.findings)],
   piiLastIndex |-> scanned.piiLastIndex]

\* columns: the own properties of the table, in Object.entries order
scanColumns(columns, filePath, piiLastIndex) ==
  scanOutcome(columns, filePath,
              columnsLoop(columns, 1, [findings |-> <<>>, piiLastIndex |-> piiLastIndex]))

(***************************************************************************)
(* JSON values, as JSON.parse builds them.  An object's props are its own  *)
(* properties [key, value] in enumeration order.                           *)
(***************************************************************************)
JNull == [k |-> "null"]
JNum(text) == [k |-> "number", text |-> text]
JBool(text) == [k |-> "boolean", text |-> text]
JStr(v) == [k |-> "string", v |-> v]
JArr(items) == [k |-> "array", items |-> items]
JObj(props) == [k |-> "object", props |-> props]
P(key, value) == [key |-> key, value |-> value]

\* the text of a JSON document whose members are written in the order given
RECURSIVE JsonText(_)
JsonText(v) ==
  CASE v.k = "null" -> "null"
    [] v.k = "number" -> v.text
    [] v.k = "boolean" -> v.text
    [] v.k = "string" -> "\"" \o v.v \o "\""
    [] v.k = "array" ->
         LET RECURSIVE Items(_)
             Items(i) == IF i > Len(v.items) THEN ""
                         ELSE (IF i > 1 THEN "," ELSE "") \o JsonText(v.items[i])
                                \o Items(i + 1)
         IN "[" \o Items(1) \o "]"
    [] v.k = "object" ->
         LET RECURSIVE Members(_)
             Members(i) == IF i > Len(v.props) THEN ""
                           ELSE (IF i > 1 THEN "," ELSE "") \o "\"" \o v.props[i].key
                                  \o "\":" \o JsonText(v.props[i].value) \o Members(i + 1)
         IN "{" \o Members(1) \o "}"

\* the value JSON.parse builds from a document: members become own
\* properties, so array-index keys are enumerated first
RECURSIVE JsonBuild(_)
JsonBuild(v) ==
  CASE v.k = "array" -> JArr([i \in 1..Len(v.items) |-> JsonBuild(v.items[i])])
    [] v.k = "object" ->
         LET RECURSIVE Define(_, _)
             Define(own, i) ==
               IF i > Len(v.props) THEN own
               ELSE LET pos == InsertPos(own, v.props[i].key)
                    IN Define(SubSeq(own, 1, pos - 1)
                                \o <<P(v.props[i].key, JsonBuild(v.props[i].value))>>
                                \o SubSeq(own, pos, Len(own)),
                              i + 1)
         IN JObj(Define(<<>>, 1))
    [] OTHER -> v

\* The JSON documents of the model (member names are distinct within an
\* object and need no escaping); every other text the model passes with a
\* .json path is not valid JSON.
R1 == JArr(<<JObj(<<P("email", JStr("a@b.co"))>>)>>)
R2 == JArr(<<JObj(<<P("2", JStr("x")), P("1", JNum("123456789"))>>),
             JObj(<<P("1", JNull), P("ssn", JBool("true"))>>)>>)
R3 == JArr(<<JObj(<<P("a", JArr(<<JNum("1"), JNull, JStr("b")>>)),
                    P("b", JObj(<<P("c", JNum("1"))>>))>>)>>)
JsonRowArrays == <<R1, R2, R3, JArr(<<>>)>>
JsonDocuments ==
  JsonRowArrays
    \o [i \in 1..Len(JsonRowArrays) |-> JObj(<<P("data", JsonRowArrays[i])>>)]
    \o [i \in 1..Len(JsonRowArrays) |-> JObj(<<P("rows", JsonRowArrays[i])>>)]
    \o << JObj(<<P("email", JStr("a@b.co"))>>),
          JObj(<<P("data", JNum("5")), P("email", JStr("a@b.co"))>>),
          JObj(<<P("data", JStr("abc")), P("email", JStr("a@b.co"))>>),
          JObj(<<P("rows", JObj(<<P("phone", JStr("x"))>>)), P("email", JStr("a@b.co"))>>),
          JObj(<<P("data", JNull), P("rows", R1)>>),
          JObj(<<P("rows", R1), P("data", R2)>>),
          JObj(<<P("data", JObj(<<P("length", JNum("1")), P("0", JObj(<<>>))>>))>>),
          JObj(<<P("rows", JArr(<<JNum("1"), JObj(<<P("email", JStr("x"))>>)>>))>>),
          JNull, JNum("5"), JStr("a@b.co"), JBool("true"),
          JArr(<<JNull>>), JArr(<<JStr("ab")>>),
          JArr(<<JObj(<<P("a", JNum("1"))>>), JNull>>),
          JArr(<<JObj(<<P("a", JNum("1"))>>), JStr("xy"), JNum("7")>>),
          JArr(<<JArr(<<JStr("a@b.co")>>)>>),
          JArr(<<JObj(<<P("constructor", JNum("1"))>>)>>),
          JArr(<<JObj(<<P("__proto__", JNum("1"))>>)>>) >>

JSONParse(text) ==
  LET hits == {i \in 1..Len(JsonDocuments) : JsonText(JsonDocuments[i]) = text}
  IN IF hits = {} THEN [ok |-> FALSE, error |-> "SyntaxError"]
     ELSE [ok |-> TRUE, value |-> JsonBuild(JsonDocuments[CHOOSE i \in hits : TRUE])]

Undefined == [k |-> "undefined"]
IsNullish(v) == v.k \in {"null", "undefined"}
\* typeof v === "object"
TypeofObject(v) == v.k \in {"null", "array", "object"}
\* v[key] for a key that no prototype defines
JsonGet(v, key) ==
  IF v.k = "object" /\ \E i \in 1..Len(v.props) : v.props[i].key = key
    THEN v.props[CHOOSE i \in 1..Len(v.props) : v.props[i].key = key].value
    ELSE Undefined
\* ToBoolean
Truthy(v) ==
  CASE v.k \in {"null", "undefined"} -> FALSE
    [] v.k = "number" -> v.text # "0"
    [] v.k = "boolean" -> v.text = "true"
    [] v.k = "string" -> v.v # ""
    [] OTHER -> TRUE
\* !rows.length
HasNoLength(rows) ==
  CASE rows.k = "array" -> Len(rows.items) = 0
    [] rows.k = "string" -> Len(rows.v) = 0
    [] OTHER -> ~Truthy(JsonGet(rows, "length"))
\* rows[0]
FirstOf(rows) ==
  CASE rows.k = "array" -> IF Len(rows.items) > 0 THEN rows.items[1] ELSE Undefined
    [] rows.k = "string" -> IF Len(rows.v) > 0 THEN JStr(SubSeq(rows.v, 1, 1)) ELSE Undefined
    [] OTHER -> JsonGet(rows, "0")

\* String(v)
RECURSIVE StringOf(_)
StringOf(v) ==
  CASE v.k = "null" -> "null"
    [] v.k = "undefined" -> "undefined"
    [] v.k \in {"number", "boolean"} -> v.text
    [] v.k = "string" -> v.v
    [] v.k = "object" -> "[object Object]"
    [] v.k = "array" ->
         LET RECURSIVE Items(_)
             Items(i) == IF i > Len(v.items) THEN ""
                         ELSE (IF i > 1 THEN "," ELSE "")
                                \o (IF IsNullish(v.items[i]) THEN "" ELSE StringOf(v.items[i]))
                                \o Items(i + 1)
         IN Items(1)

\* Object.entries(row) for a row that is not null
EntriesOf(row) ==
  CASE row.k = "object" -> row.props
    [] row.k = "array" ->
         [i \in 1..Len(row.items) |-> P(NatToString(i - 1), row.items[i])]
    [] row.k = "string" ->
         [i \in 1..Len(row.v) |-> P(NatToString(i - 1), JStr(SubSeq(row.v, i, i)))]
    [] OTHER -> <<>>

TypeError == [ok |-> FALSE, error |-> "TypeError"]

\* data.data ?? data.rows ?? [data], for data that is not an array
resolveWrapped(data) ==
  IF ~IsNullish(JsonGet(data, "data")) THEN JsonGet(data, "data")
  ELSE IF ~IsNullish(JsonGet(data, "rows")) THEN JsonGet(data, "rows")
  ELSE JArr(<<data>>)

\* const rows = Array.isArray(data) ? data : data.data ?? data.rows ?? [data]
resolveRows(data) ==
  IF data.k = "array" THEN [ok |-> TRUE, value |-> data]
  ELSE IF data.k = "null" THEN TypeError
  ELSE [ok |-> TRUE, value |-> resolveWrapped(data)]

\* the body of the inner loop: if (!columns[k]) columns[k] = []; columns[k].push(...)
addCell(columns, key, v) ==
  IF HasOwn(columns, key)
    THEN [ok |-> TRUE,
          value |-> PropertyPush(columns, key, IF IsNullish(v) THEN "" ELSE StringOf(v))]
  ELSE IF key \in ObjectPrototypeKeys
    THEN TypeError
    ELSE [ok |-> TRUE,
          value |-> PropertyPush(PropertySet(columns, key, <<>>), key,
                                 IF IsNullish(v) THEN "" ELSE StringOf(v))]

\* lines 66-75 of parseJSON: the column table of the resolved rows
tableFromRows(rows) ==
  LET RECURSIVE Cells(_, _, _)
      Cells(columns, entries, j) ==
        IF j > Len(entries) THEN [ok |-> TRUE, value |-> columns]
        ELSE LET next == addCell(columns, entries[j].key, entries[j].value)
             IN IF next.ok THEN Cells(next.value, entries, j + 1) ELSE next
      RECURSIVE Rows(_, _)
      Rows(columns, i) ==
        IF i > Len(rows.items) THEN [ok |-> TRUE, value |-> columns]
        ELSE IF rows.items[i].k = "null" THEN TypeError
        ELSE LET next == Cells(columns, EntriesOf(rows.items[i]), 1)
             IN IF next.ok THEN Rows(next.value, i + 1) ELSE next
  IN IF HasNoLength(rows) \/ ~TypeofObject(FirstOf(rows))
       THEN [ok |-> TRUE, value |-> EmptyObject]
     ELSE IF rows.k # "array" THEN TypeError
     ELSE Rows(EmptyObject, 1)

parseJSON(content) ==
  LET parsed == JSONParse(content)
      resolved == resolveRows(parsed.value)
  IN IF ~parsed.ok THEN parsed
     ELSE IF ~resolved.ok THEN resolved
     ELSE tableFromRows(resolved.value)

(***************************************************************************)
(* scanContent (scanner.ts).                                               *)
(***************************************************************************)
\* what the catch block does with the error parseJSON threw
\* a catch block that throws the error on
catchParseError_rethrow(content, thrown) == thrown
catchParseError(content, thrown) ==
  [ok |-> TRUE, value |-> PropertySet(EmptyObject, "_text", SplitBy(content, LfSep(content)))]

\* the try/catch of scanContent around parseJSON
orCatch(content, tried) ==
  IF tried.ok THEN tried ELSE catchParseError(content, tried)

\* the end of scanContent, given what the normalization produced
scanParsed(columns, filePath, piiLastIndex) ==
  IF columns.ok
    THEN [raised |-> FALSE] @@ scanColumns(columns.value.own, filePath, piiLastIndex)
    ELSE [raised |-> TRUE, result |-> columns.error, piiLastIndex |-> piiLastIndex]

scanContent(content, filePath, piiLastIndex) ==
  scanParsed(IF EndsWith(filePath, ".json")
               THEN orCatch(content, parseJSON(content))
               ELSE [ok |-> TRUE, value |-> parseCSV(content)],
             filePath, piiLastIndex)

(***************************************************************************)
(* The inputs of the model.                                                *)
(***************************************************************************)
\* columns of a table handed to scanColumns; data lines of a CSV text
MaxColumns == 2
MaxDataLines == 2
\* values a long column has beyond the sampling cap
MaxExtraRows == 2
\* length of the longest string handed to redact; characters of a line
\* handed to splitLine
MaxValueLen == 16
MaxLineLen == 5
\* scans a caller makes one after the other
MaxScans == 2

Fill(v, n) == [i \in 1..n |-> v]

ColumnNames == <<"ssn", "email", "notes", "Zip Phone", "user.email", "2", "1">>
ShortValues ==
  << <<>>, <<"123", "456">>, <<"123", "45", "6789">>, <<"a@b.co">>,
     <<"Contact: alice@example.com">>, <<"a@b.co 123456789", "x", "c@d.org">>,
     <<"12", "Main", "St">>, <<"555", "123", "4567">>,
     <<"a@b.co", "c@d.co", "e@f.co", "g@h.co">>,
     <<"12345", "01/02/1999 10.0.0.1">> >>
\* columns around the sampling cap: rows without a match up to the cap, an
\* e-mail address on the last sampled row or not, and others past the cap;
\* and the same address on every row
LongValues ==
  { Fill("x", SampleCap - 1) \o <<"a@b.co">> \o Fill("c@d.org", n) : n \in 0..MaxExtraRows }
    \cup { Fill("x", SampleCap) \o Fill("c@d.org", n) : n \in 1..MaxExtraRows }
    \cup { Fill("x", SampleCap - 2) \o Fill("a@b.co", n) : n \in 1..(2 + MaxExtraRows) }
    \cup { Fill("a@b.co", SampleCap + MaxExtraRows) }
LongNames == {"email", "Zip Phone"}

\* the object literal { k1: v1, k2: v2, .. }
RECURSIVE ObjectOf(_, _)
ObjectOf(entries, obj) ==
  IF Len(entries) = 0 THEN obj
  ELSE ObjectOf(Tail(entries), PropertySet(obj, Head(entries).key, Head(entries).values))

\* the tables of one column
SingleColumns ==
  {<<[key |-> ColumnNames[i], values |-> ShortValues[j]]>> :
     i \in 1..Len(ColumnNames), j \in 1..Len(ShortValues)}
\* the columns of the tables that have several
SomeNames == {"ssn", "notes", "2", "1"}
SomeValues == {<<"123", "456">>, <<"a@b.co">>}
SomeColumns == {[key |-> k, values |-> v] : k \in SomeNames, v \in SomeValues}
\* the property lists of n distinct columns, in every order of creation
RECURSIVE EntriesOfSize(_)
EntriesOfSize(n) ==
  IF n = 0 THEN {<<>>}
  ELSE {Append(es, c) : es \in EntriesOfSize(n - 1),
                        c \in {c \in SomeColumns : n <= 2 \/ c.values = <<"a@b.co">>}}
DistinctKeys(es) == \A i, j \in 1..Len(es) : i # j => es[i].key # es[j].key
Tables ==
  {<<>>} \cup SingleColumns
    \cup {ObjectOf(es, EmptyObject).own :
            es \in {e \in UNION {EntriesOfSize(n) : n \in 2..MaxColumns} : DistinctKeys(e)}}
    \cup {<<[key |-> k, values |-> v]>> : k \in LongNames, v \in LongValues}

HeaderLines == <<"a,b", "2,1", "ssn, email", "notes,a,notes", "__proto__,10,9">>
\* a data line with the line break before it
DataLines ==
  <<"\n1,\"x,y\"", "\na@b.co,c@d.co,123-45-6789", "\r\n123", "\n  \n45,Main St">>
RECURSIVE CsvBodies(_)
CsvBodies(n) ==
  IF n = 0 THEN {""}
  ELSE LET shorter == CsvBodies(n - 1)
       IN shorter \cup {b \o DataLines[i] : b \in shorter, i \in 1..Len(DataLines)}
CsvTexts ==
  {HeaderLines[h] \o b : h \in 1..Len(HeaderLines), b \in CsvBodies(MaxDataLines)}
    \cup {"", "\n \r\n"}
\* texts that are not JSON documents
MalformedJson == {"{not valid", "{not valid\r\na@b.co\n123-45-6789", "[{\"email\":\"a@b.co\"}"}
JsonTexts == {JsonText(JsonDocuments[i]) : i \in 1..Len(JsonDocuments)}
FilePaths == {"data.csv", "data.json"}
\* the calls of scanContent: the CSV texts as CSV, the JSON documents and
\* the texts that are none under either path
ContentCalls ==
  {[content |-> c, filePath |-> "data.csv"] : c \in CsvTexts}
    \cup {[content |-> c, filePath |-> f] :
            c \in JsonTexts \cup MalformedJson \cup {"", "2,1\na@b.co,c@d.co"},
            f \in FilePaths}
\* scanColumns only copies its path into the result
TablePaths == {"dataset.json"}

\* every substring of a text that has the characters redact shows and masks
RedactSource == "ab*cdefghijklmnopqrstuvwxyz"
RedactInputs ==
  {SubSeq(RedactSource, i, j) : i \in 1..(MaxValueLen + 1), j \in 0..MaxValueLen}
\* every line of at most MaxLineLen characters over a , " and space, and
\* the data lines of the CSV texts
LineChars == <<"a", ",", "\"", " ">>
RECURSIVE LinesUpTo(_)
LinesUpTo(n) ==
  IF n = 0 THEN {""}
  ELSE LET shorter == LinesUpTo(n - 1)
       IN shorter \cup {l \o LineChars[k] : l \in shorter, k \in 1..Len(LineChars)}
SplitInputs ==
  LinesUpTo(MaxLineLen) \cup {HeaderLines[i] : i \in 1..Len(HeaderLines)}
    \cup {"1,\"x,y\"", " \" x \" , y ", "\"a, \"\"b\" c,d"}

(***************************************************************************)
(* The state machine: a caller invokes the entry points one after the      *)
(* other; the catalog outlives the calls.                                  *)
(***************************************************************************)
\* pc, call, ret: where the caller is, the call it made and what it got
\* back; scans: the scans completed so far; piiLastIndex: the catalog state
VARIABLES pc, call, ret, scans, piiLastIndex
vars == <<pc, call, ret, scans, piiLastIndex>>

NoCall == [fn |-> "none"]
NoReturn == [raised |-> FALSE, result |-> "none"]

Init ==
  /\ pc = "idle"
  /\ call = NoCall
  /\ ret = NoReturn
  /\ scans = 0
  /\ piiLastIndex = ZeroLastIndex

\* the caller invokes scanColumns(columns, filePath)
InvokeScanColumns ==
  /\ pc = "idle" /\ scans < MaxScans
  /\ \E columns \in Tables, filePath \in TablePaths :
       call' = [fn |-> "scanColumns", columns |-> columns, filePath |-> filePath]
  /\ pc' = "called"
  /\ UNCHANGED <<ret, scans, piiLastIndex>>

\* the caller invokes scanContent(content, filePath)
InvokeScanContent ==
  /\ pc = "idle" /\ scans < MaxScans
  /\ \E c \in ContentCalls :
       call' = [fn |-> "scanContent", content |-> c.content, filePath |-> c.filePath]
  /\ pc' = "called"
  /\ UNCHANGED <<ret, scans, piiLastIndex>>

ScanColumns ==
  /\ pc = "called" /\ call.fn = "scanColumns"
  /\ \E scanned \in {scanColumns(call.columns, call.filePath, piiLastIndex)} :
       /\ ret' = [raised |-> FALSE, result |-> scanned.result]
       /\ piiLastIndex' = scanned.piiLastIndex
  /\ pc' = "returned"
  /\ scans' = scans + 1
  /\ UNCHANGED call

ScanContent ==
  /\ pc = "called" /\ call.fn = "scanContent"
  /\ \E scanned \in {scanContent(call.content, call.filePath, piiLastIndex)} :
       /\ ret' = [raised |-> scanned.raised, result |-> scanned.result]
       /\ piiLastIndex' = scanned.piiLastIndex
  /\ pc' = "returned"
  /\ scans' = scans + 1
  /\ UNCHANGED call

\* the caller takes the result and is ready for its next call
Return ==
  /\ pc = "returned"
  /\ pc' = "idle"
  /\ call' = NoCall
  /\ ret' = NoReturn
  /\ UNCHANGED <<scans, piiLastIndex>>

Next == InvokeScanColumns \/ InvokeScanContent \/ ScanColumns \/ ScanContent \/ Return
Spec == Init /\ [][Next]_vars

(***************************************************************************)
(* The helpers of the engine applied to one input each.                    *)
(***************************************************************************)
InitPure ==
  /\ pc = "called"
  /\ call \in {[fn |-> "redact", value |-> v] : v \in RedactInputs}
              \cup {[fn |-> "splitLine", line |-> l] : l \in SplitInputs}
              \cup {[fn |-> "parseCSV", content |-> c] : c \in CsvTexts}
              \cup {[fn |-> "parseJSON", content |-> c] : c \in JsonTexts \cup MalformedJson}
  /\ ret = NoReturn
  /\ scans = 0
  /\ piiLastIndex = ZeroLastIndex

RedactApply ==
  /\ pc = "called" /\ call.fn = "redact"
  /\ ret' = [raised |-> FALSE, result |-> redact(call.value)]
  /\ pc' = "returned"
  /\ UNCHANGED <<call, scans, piiLastIndex>>

SplitLineApply ==
  /\ pc = "called" /\ call.fn = "splitLine"
  /\ ret' = [raised |-> FALSE, result |-> splitLine(call.line)]
  /\ pc' = "returned"
  /\ UNCHANGED <<call, scans, piiLastIndex>>

ParseCSVApply ==
  /\ pc = "called" /\ call.fn = "parseCSV"
  /\ ret' = [raised |-> FALSE, result |-> parseCSV(call.content)]
  /\ pc' = "returned"
  /\ UNCHANGED <<call, scans, piiLastIndex>>

ParseJSONApply ==
  /\ pc = "called" /\ call.fn = "parseJSON"
  /\ LET parsed == parseJSON(call.content)
     IN ret' = IF parsed.ok THEN [raised |-> FALSE, result |-> parsed.value]
               ELSE [raised |-> TRUE, result |-> parsed.error]
  /\ pc' = "returned"
  /\ UNCHANGED <<call, scans, piiLastIndex>>

NextPure == RedactApply \/ SplitLineApply \/ ParseCSVApply \/ ParseJSONApply
SpecPure == InitPure /\ [][NextPure]_vars

(***************************************************************************)
(* Properties.                                                             *)
(***************************************************************************)
Scanned == pc = "returned" /\ call.fn \in {"scanColumns", "scanContent"} /\ ~ret.raised
RiskRank(r) == CASE r = "LOW" -> 1 [] r = "MEDIUM" -> 2 [] r = "HIGH" -> 3
ScanResultFields ==
  {"file", "rowsScanned", "columnsScanned", "findings", "overallRisk", "summary"}

\* C1: the overallRisk of every returned ScanResult is the greatest risk
\* among its findings under LOW < MEDIUM < HIGH, and LOW when there are
\* none; so it is LOW iff findings is empty or every finding is LOW.
C1_OverallRiskIsMax ==
  Scanned =>
    LET fs == ret.result.findings
        overall == ret.result.overallRisk
    IN /\ \A i \in 1..Len(fs) : RiskRank(fs[i].risk) <= RiskRank(overall)
       /\ Len(fs) > 0 => \E i \in 1..Len(fs) : fs[i].risk = overall
       /\ Len(fs) = 0 => overall = "LOW"
       /\ overall = "LOW" <=> (Len(fs) = 0 \/ \A i \in 1..Len(fs) : fs[i].risk = "LOW")

\* a scan whose findings are LOW and MEDIUM, none HIGH
C1_Witness ==
  /\ Scanned
  /\ \E i, j \in 1..Len(ret.result.findings) :
       ret.result.findings[i].risk = "LOW" /\ ret.result.findings[j].risk = "MEDIUM"
  /\ ret.result.overallRisk = "MEDIUM"

NewlineCount(str) == Cardinality({i \in 1..Len(str) : SubSeq(str, i, i) = "\n"})
JsonNormalizationFails(content) == ~parseJSON(content).ok

\* C2: scanContent never raises and returns a complete ScanResult; with a
\* path ending in .json and a text JSON normalization fails on, the result
\* is the scan of the one column _text that holds the lines of the text.
C2_ScanContentNeverRaises ==
  (pc = "returned" /\ call.fn = "scanContent") =>
    /\ ~ret.raised
    /\ DOMAIN ret.result = ScanResultFields
    /\ (EndsWith(call.filePath, ".json") /\ JsonNormalizationFails(call.content)) =>
         /\ ret.result.columnsScanned = 1
         /\ ret.result.rowsScanned = NewlineCount(call.content) + 1
         /\ \A i \in 1..Len(ret.result.findings) : ret.result.findings[i].column = "_text"
         /\ ret.result =
              scanColumns(<<[key |-> "_text", values |-> SplitBy(call.content, LfSep(call.content))]>>,
                          call.filePath, ZeroLastIndex).result

\* a text that is not JSON, scanned under a .json path, with findings
C2_Witness ==
  /\ pc = "returned" /\ call.fn = "scanContent" /\ ~ret.raised
  /\ EndsWith(call.filePath, ".json")
  /\ JsonNormalizationFails(call.content)
  /\ ret.result.columnsScanned = 1
  /\ ret.result.rowsScanned = 3
  /\ Len(ret.result.findings) > 0

IsArrayOfObjects(v) ==
  v.k = "array" /\ \A i \in 1..Len(v.items) : v.items[i].k = "object"
RowsByShape(data) ==
  IF data.k = "array" THEN data
  ELSE IF IsArrayOfObjects(JsonGet(data, "data")) THEN JsonGet(data, "data")
  ELSE IF IsArrayOfObjects(JsonGet(data, "rows")) THEN JsonGet(data, "rows")
  ELSE JArr(<<data>>)
Wrapped(field, rows) == JsonText(JObj(<<P(field, rows)>>))

\* C4: JSON normalization takes a top-level array as the rows, else the
\* data field if it holds an array of objects, else the rows field if it
\* holds an array of objects, else the value itself as the only row; so an
\* array of objects R normalizes the same bare, under data and under rows.
C4_JsonRowResolution ==
  (pc = "returned" /\ call.fn = "parseJSON" /\ JSONParse(call.content).ok) =>
    LET byShape == tableFromRows(RowsByShape(JSONParse(call.content).value))
    IN /\ IF byShape.ok THEN ~ret.raised /\ ret.result = byShape.value
                         ELSE ret.raised
       /\ \A i \in 1..Len(JsonRowArrays) :
            (IsArrayOfObjects(JsonRowArrays[i])
               /\ call.content \in {Wrapped("data", JsonRowArrays[i]),
                                    Wrapped("rows", JsonRowArrays[i])})
              => /\ ~ret.raised
                 /\ ret.result = parseJSON(JsonText(JsonRowArrays[i])).value

\* an object whose data field is a number is normalized to the empty table
C4_Witness ==
  /\ pc = "returned" /\ call.fn = "parseJSON"
  /\ call.content = "{\"data\":5,\"email\":\"a@b.co\"}"
  /\ ~ret.raised /\ ret.result = EmptyObject

\* the table a returned scan went through, as Object.entries gives it
ScannedTable ==
  IF call.fn = "scanColumns" THEN call.columns
  ELSE IF EndsWith(call.filePath, ".json")
    THEN orCatch(call.content, parseJSON(call.content)).value.own
    ELSE parseCSV(call.content).own
FindingsOf(column, source) ==
  SelectSeq(ret.result.findings, LAMBDA f : f.column = column /\ f.source = source)
\* the rules that match a column name; the first values of a column, joined
MatchingRules(column) ==
  {k \in 1..Len(SUSPICIOUS_COLUMN_NAMES) :
     RegExpTest(SUSPICIOUS_COLUMN_NAMES[k].pattern, column)}
Blob(values) == JoinLines(SubSeq(values, 1, Min(Len(values), SampleCap)))
MatchesIn(values, k) == MatchAll(Blob(values), PII_PATTERNS[k].pattern, 0)

\* C5: a column has at most one column_name finding; it has one iff some
\* name rule matches its name, with the label and risk of the first such
\* rule, no sample values and the number of all its values as matchCount;
\* if no content pattern matches, that is the only finding of the column.
C5_ColumnNameFinding ==
  Scanned =>
    \A c \in 1..Len(ScannedTable) :
      LET column == ScannedTable[c].key
          values == ScannedTable[c].values
          byName == FindingsOf(column, "column_name")
          rules == MatchingRules(column)
      IN /\ Len(byName) <= 1
         /\ Len(byName) = 1 <=> rules # {}
         /\ Len(byName) = 1 =>
              /\ \E k \in rules :
                   /\ \A j \in rules : k <= j
                   /\ byName[1].patternName = SUSPICIOUS_COLUMN_NAMES[k].label
                   /\ byName[1].risk = SUSPICIOUS_COLUMN_NAMES[k].risk
              /\ byName[1].sampleValues = <<>>
              /\ byName[1].matchCount = Len(values)
              /\ (\A k \in 1..Len(PII_PATTERNS) : MatchesIn(values, k) = <<>>)
                   => SelectSeq(ret.result.findings, LAMBDA f : f.column = column) = byName

\* a column of more values than the sampling cap whose name matches two
\* rules: one finding, which counts all the values
C5_Witness ==
  /\ Scanned
  /\ \E c \in 1..Len(ScannedTable) :
       /\ Cardinality(MatchingRules(ScannedTable[c].key)) > 1
       /\ Len(ScannedTable[c].values) > SampleCap
       /\ Len(FindingsOf(ScannedTable[c].key, "column_name")) = 1
       /\ FindingsOf(ScannedTable[c].key, "column_name")[1].matchCount
            = Len(ScannedTable[c].values)

ContentFindingOf(column, k) ==
  SelectSeq(ret.result.findings,
            LAMBDA f : f.column = column /\ f.source = "content"
                         /\ f.patternName = PII_PATTERNS[k].name)

\* C6: the content findings of a column are determined by its name and
\* its first 200 values: a pattern has a finding iff it matches in the
\* join of these values, with the number of matches as matchCount and the
\* redaction of the first min(3, matchCount) matches as sampleValues.
C6_ContentFromFirstValues ==
  Scanned =>
    \A c \in 1..Len(ScannedTable) :
      \A k \in 1..Len(PII_PATTERNS) :
        LET found == ContentFindingOf(ScannedTable[c].key, k)
            matches == MatchesIn(ScannedTable[c].values, k)
        IN /\ Len(found) = (IF Len(matches) > 0 THEN 1 ELSE 0)
           /\ Len(found) = 1 =>
                /\ found[1].matchCount >= 1
                /\ found[1].matchCount = Len(matches)
                /\ Len(found[1].sampleValues) = Min(MaxSamples, Len(matches))
                /\ \A i \in 1..Len(found[1].sampleValues) :
                     found[1].sampleValues[i] = redact(matches[i])

\* a column with matching values past the cap whose finding counts the
\* matches of the first 200 values only
C6_Witness ==
  /\ Scanned
  /\ \E c \in 1..Len(ScannedTable) :
       /\ Len(ScannedTable[c].values) > SampleCap
       /\ ScannedTable[c].values[SampleCap + 1] = "c@d.org"
       /\ \E k \in 1..Len(PII_PATTERNS) :
            /\ Len(ContentFindingOf(ScannedTable[c].key, k)) = 1
            /\ ContentFindingOf(ScannedTable[c].key, k)[1].matchCount = 1

\* the column names in table order: for CSV the header row as written
HeaderOrder ==
  IF call.fn = "scanContent" /\ ~EndsWith(call.filePath, ".json")
    THEN IF Len(csvLines(call.content)) = 0 THEN <<>>
         ELSE splitLine(csvLines(call.content)[1])
    ELSE [c \in 1..Len(ScannedTable) |-> ScannedTable[c].key]
PositionIn(order, column) ==
  IF \E p \in 1..Len(order) : order[p] = column
    THEN CHOOSE p \in 1..Len(order) :
           order[p] = column /\ \A q \in 1..(p - 1) : order[q] # column
    ELSE 0
\* 0 for the column-name check, k for the k-th content pattern
CheckRank(f) ==
  IF f.source = "column_name" THEN 0
  ELSE CHOOSE k \in 1..Len(PII_PATTERNS) : PII_PATTERNS[k].name = f.patternName

\* C7: the findings follow the columns in table order, for CSV the order
\* of the header row as written; within a column the column_name finding
\* precedes the content findings, which are in catalog order.
C7_FindingsInTableOrder ==
  Scanned =>
    LET fs == ret.result.findings
    IN \A i, j \in 1..Len(fs) :
         i < j =>
           /\ PositionIn(HeaderOrder, fs[i].column) > 0
           /\ PositionIn(HeaderOrder, fs[i].column) <= PositionIn(HeaderOrder, fs[j].column)
           /\ fs[i].column = fs[j].column => CheckRank(fs[i]) < CheckRank(fs[j])

\* the CSV header 2,1: the findings of column 1 come before those of 2
C7_Witness ==
  /\ Scanned /\ call.fn = "scanContent" /\ call.filePath = "data.csv"
  /\ HeaderOrder = <<"2", "1">>
  /\ Len(ret.result.findings) >= 2
  /\ ret.result.findings[1].column = "1"
  /\ ret.result.findings[Len(ret.result.findings)].column = "2"

\* position i of the line is inside quotes: an odd number of " before it
InsideQuotes(line, i) ==
  Cardinality({q \in 1..(i - 1) : SubSeq(line, q, q) = "\""}) % 2 = 1
SeparatorsOf(line) ==
  {i \in 1..Len(line) : SubSeq(line, i, i) = "," /\ ~InsideQuotes(line, i)}
RECURSIVE TextAt(_, _, _)
TextAt(line, a, b) ==
  IF a > b THEN ""
  ELSE (IF SubSeq(line, a, a) = "\"" THEN "" ELSE SubSeq(line, a, a)) \o TextAt(line, a + 1, b)
\* the field between two separators: quotes removed, whitespace outside
\* quotes trimmed at both ends, everything inside quotes kept
QuotedField(line, a, b) ==
  LET solid == {i \in a..b : /\ SubSeq(line, i, i) # "\""
                               /\ (InsideQuotes(line, i) \/ SubSeq(line, i, i) \notin Space)}
  IN IF solid = {} THEN ""
     ELSE TextAt(line, CHOOSE i \in solid : \A j \in solid : i <= j,
                       CHOOSE i \in solid : \A j \in solid : i >= j)
RECURSIVE QuotedFields(_, _)
QuotedFields(line, from) ==
  LET after == {i \in SeparatorsOf(line) : i >= from}
  IN IF after = {} THEN <<QuotedField(line, from, Len(line))>>
     ELSE LET sep == CHOOSE i \in after : \A j \in after : i <= j
          IN <<QuotedField(line, from, sep - 1)>> \o QuotedFields(line, sep + 1)

\* C8: splitting a line into fields, a " toggles the inside-quotes state
\* and is dropped, a comma separates fields only outside quotes, whitespace
\* outside quotes is trimmed at the ends of a field and whatever is inside
\* quotes is kept; header a,b with the row 1,"x,y" gives a = 1, b = x,y.
C8_QuoteAwareSplit ==
  /\ (pc = "returned" /\ call.fn = "splitLine") =>
       ret.result = QuotedFields(call.line, 1)
  /\ (pc = "returned" /\ call.fn = "parseCSV" /\ call.content = "a,b\n1,\"x,y\"") =>
       ret.result.own = <<[key |-> "a", values |-> <<"1">>],
                          [key |-> "b", values |-> <<"x,y">>]>>

\* a quoted field that begins with a blank comes back without it
C8_Witness ==
  /\ pc = "returned" /\ call.fn = "splitLine"
  /\ call.line = "\" a\""
  /\ ret.result = <<"a">>

\* what the call in progress returns when the catalog is as constructed
FreshOutcome ==
  IF call.fn = "scanColumns"
    THEN [raised |-> FALSE,
          result |-> scanColumns(call.columns, call.filePath, ZeroLastIndex).result]
    ELSE [raised |-> scanContent(call.content, call.filePath, ZeroLastIndex).raised,
          result |-> scanContent(call.content, call.filePath, ZeroLastIndex).result]

\* C9: scans are history-independent: the lastIndex of every expression of
\* the catalog is after each scan what it was at construction, and what a
\* scan returns is what it returns as the first scan of the process.
C9_HistoryIndependent ==
  /\ piiLastIndex = ZeroLastIndex
  /\ (pc = "returned" /\ call.fn \in {"scanColumns", "scanContent"}) => ret = FreshOutcome

\* a second scan that found content matches
C9_Witness ==
  /\ Scanned /\ scans = 2
  /\ piiLastIndex = ZeroLastIndex
  /\ \E i \in 1..Len(ret.result.findings) :
       /\ ret.result.findings[i].source = "content"
       /\ ret.result.findings[i].matchCount > 1
       /\ Len(ret.result.findings[i].sampleValues) > 1

\* the matches of pattern k inside the values lo..hi, each value on its own
RECURSIVE MatchesPerCell(_, _, _, _)
MatchesPerCell(values, k, lo, hi) ==
  IF lo > hi THEN 0
  ELSE IF lo = hi THEN Len(MatchAll(values[lo], PII_PATTERNS[k].pattern, 0))
  ELSE MatchesPerCell(values, k, lo, (lo + hi) \div 2)
         + MatchesPerCell(values, k, ((lo + hi) \div 2) + 1, hi)
ReportedCount(column, k) ==
  IF Len(ContentFindingOf(column, k)) = 0 THEN 0
  ELSE ContentFindingOf(column, k)[1].matchCount

\* C10: no content match spans two cells: for every column and content
\* pattern the matchCount reported (0 without a finding) is the sum over
\* the first 200 values of the matches of the pattern inside that value.
C10_NoMatchAcrossCells ==
  Scanned =>
    \A c \in 1..Len(ScannedTable) :
      \A k \in 1..Len(PII_PATTERNS) :
        ReportedCount(ScannedTable[c].key, k)
          = MatchesPerCell(ScannedTable[c].values, k, 1,
                           Min(Len(ScannedTable[c].values), SampleCap))

\* the rows 123, 45, 6789 of one column reported as one SSN
C10_Witness ==
  /\ Scanned
  /\ \E c \in 1..Len(ScannedTable) :
       /\ ScannedTable[c].values = <<"123", "45", "6789">>
       /\ \E i \in 1..Len(ret.result.findings) :
            /\ ret.result.findings[i].column = ScannedTable[c].key
            /\ ret.result.findings[i].patternName = "SSN (US Social Security Number)"
            /\ ret.result.findings[i].matchCount = 1

\* a returned scanContent call that took the CSV path
CsvScanned ==
  Scanned /\ call.fn = "scanContent" /\ ~EndsWith(call.filePath, ".json")
\* the number of non-blank lines after the header
DataLineCount ==
  IF Len(csvLines(call.content)) = 0 THEN 0 ELSE Len(csvLines(call.content)) - 1
\* the header row names some column more than once
RepeatsName(headers) ==
  \E p, q \in 1..Len(headers) : p < q /\ headers[p] = headers[q]

\* C11: for CSV input a data line contributes at most one value to a column,
\* also under a header row that repeats a name: no column holds more values
\* than there are non-blank data lines, and rowsScanned does not exceed the
\* number of non-blank lines after the header.
C11_OneValuePerDataLine ==
  CsvScanned =>
    /\ \A c \in 1..Len(ScannedTable) : Len(ScannedTable[c].values) <= DataLineCount
    /\ ret.result.rowsScanned <= DataLineCount

\* a CSV scan has returned whose header repeats a name and whose data lines
\* include one with a field under both declarations
C11_Witness ==
  /\ CsvScanned
  /\ DataLineCount >= 1
  /\ RepeatsName(HeaderOrder)
  /\ \E i \in 2..Len(csvLines(call.content)) :
       Len(splitLine(csvLines(call.content)[i])) >= Len(HeaderOrder)

====
